---- MODULE Spec2Model ----
(***************************************************************************)
(* Compiler-generated method resolution of the Chapel frontend             *)
(* (frontend/lib/resolution/default-functions.cpp): the generation         *)
(* decision (needCompilerGeneratedMethod), the overload-presence check,    *)
(* the signature builders and the memoized dispatcher queries.             *)
(***************************************************************************)
EXTENDS Integers, Sequences, FiniteSets, TLC

VARIABLES
  asserts,      \* build configuration: TRUE when CHPL_ASSERT is compiled in
  input,        \* the argument tuple drawn for one application of a pure function
  methodMemo,   \* result table of getCompilerGeneratedMethodQuery, key -> result
  binaryMemo,   \* result table of getCompilerGeneratedBinaryOpQuery, key -> result
  accessorMemo, \* result table of fieldAccessorQuery, key -> result
  requests,     \* resolution requests in flight on the threads of a parallel host
  last          \* observation of the most recent call: arguments, outcome, result

vars == <<asserts, input, methodMemo, binaryMemo, accessorMemo, requests, last>>

(***************************************************************************)
(* Bounds of the model.                                                    *)
(***************************************************************************)
\* longest list of declarations a scope lookup returns
MaxDecls == 2
\* most fields a composite type declares
MaxFields == 2
\* most entries the result tables hold before the context stops taking new keys
MaxCalls == 2
\* resolution requests a parallel host runs at once against one context
MaxRequests == 2

(***************************************************************************)
(* Names.                                                                  *)
(***************************************************************************)
InitNames == {"init", "deinit", "init="}

OperatorNames == {"==", "="}

DomainParenlessNames == {"idxType", "rank", "stridable", "parSafe"}

DomainParenfulNames == {"isRectangular", "isAssociative"}

ArrayNames == {"domain", "eltType"}

Names ==
  InitNames \cup OperatorNames \cup DomainParenlessNames
    \cup DomainParenfulNames \cup ArrayNames \cup {"size", "foo"}

(***************************************************************************)
(* Types.  A type is an interned immutable value; the record carries what  *)
(* the type-system, scope and field queries answer about it:               *)
(*   kind      the type tag                                                *)
(*   decor     class decoration ("BASIC" is the undecorated BasicClassType)*)
(*   inst      "concrete", "generic", or "instantiated" (of a generic)     *)
(*   parent    parent class: "none", "object" or "other"                   *)
(*   scoped    whether scopeForId finds a scope for the type's id          *)
(*   decls     declarations of the type's defining scope                   *)
(*   fields    declared fields, in declaration order                       *)
(*   abstract  (enum) whether the enum has no concrete constant values     *)
(***************************************************************************)
Kinds == {"record", "class", "union", "tuple", "domain", "array", "cptr", "enum"}

CompositeKinds == {"record", "class", "union", "tuple", "domain", "array"}

NullType == [kind |-> "null"]

\* CanPassResult of can-pass.h: passes, the conversion kind, promotes.
CanPassResults ==
  [passes : BOOLEAN, conv : {"NONE", "BORROWS", "OTHER"}, promotes : BOOLEAN]

passes(r) == r.passes

converts(r) == r.conv # "NONE"

convertsWithBorrowing(r) == r.conv = "BORROWS"

promotes(r) == r.promotes

\* An outcome canPass produces: a failure carries no conversion and no promotion.
RealCanPass == {r \in CanPassResults : ~r.passes => (r.conv = "NONE" /\ ~r.promotes)}

FailPass == [passes |-> FALSE, conv |-> "NONE", promotes |-> FALSE]

\* A declaration found in a scope: its name, whether the AST node is a
\* Function, a method, of kind OPERATOR, and what canPass answers for the
\* requested type against its receiver formal (this formal of a method,
\* first formal of a standalone operator).
DeclShapes(n) ==
  {[name |-> n, isFunction |-> FALSE, isMethod |-> FALSE, isOperator |-> FALSE,
    recv |-> FailPass],
   [name |-> n, isFunction |-> TRUE, isMethod |-> FALSE, isOperator |-> FALSE,
    recv |-> [passes |-> TRUE, conv |-> "NONE", promotes |-> FALSE]]}
  \cup {[name |-> n, isFunction |-> TRUE, isMethod |-> m, isOperator |-> ~m,
         recv |-> r] : m \in BOOLEAN, r \in RealCanPass}

SeqsUpTo(S, n) == UNION {[1..k -> S] : k \in 0..n}

QT(k, t) == [kind |-> k, type |-> t]

\* Field types: isTypeDefaultInitializable answers TRUE for "int" and FALSE
\* for a non-nilable owned class.
FieldTypes == {"int", "owned C"}

isTypeDefaultInitializable(ft) == ft = "int"

FieldNameAt == <<"a", "b", "c", "d">>

FieldShapes == [kind : {"VAR", "TYPE", "PARAM"}, type : FieldTypes, hasDefault : BOOLEAN]

FieldLists ==
  {[i \in 1..Len(fs) |-> [name |-> FieldNameAt[i], qt |-> QT(fs[i].kind, fs[i].type),
                          hasDefault |-> fs[i].hasDefault]] :
     fs \in SeqsUpTo(FieldShapes, MaxFields)}

MkType(k, dec, ins, par, sc, ds, fs, ab) ==
  [kind |-> k, decor |-> dec, inst |-> ins, parent |-> par, scoped |-> sc,
   decls |-> ds, fields |-> fs, abstract |-> ab]

(***************************************************************************)
(* Type-system and scope queries the code calls into.                      *)
(***************************************************************************)
isRecordType(t) == t.kind = "record"

isUnionType(t) == t.kind = "union"

isTupleType(t) == t.kind = "tuple"

isDomainType(t) == t.kind = "domain"

isArrayType(t) == t.kind = "array"

isCPtrType(t) == t.kind = "cptr"

isEnumType(t) == t.kind = "enum"

\* Type::getCompositeType: the composite type itself, the BasicClassType of
\* a decorated class type, null for anything else.
getCompositeType(t) ==
  IF t.kind = "class" THEN [t EXCEPT !.decor = "BASIC"]
  ELSE IF t.kind \in CompositeKinds THEN t
  ELSE NullType

scopeForId(compType) == compType.scoped

\* lookupNameInScope with LOOKUP_DECLS | LOOKUP_PARENTS | LOOKUP_METHODS:
\* the declarations of the scope that carry the name, in order.
lookupNameInScope(compType, name) ==
  SelectSeq(compType.decls, LAMBDA d : d.name = name)

(***************************************************************************)
(* Generation decision.                                                    *)
(***************************************************************************)
isNameOfCompilerGeneratedMethod(name) ==
  name = "init" \/ name = "deinit" \/ name = "init="

\* The loop body of areOverloadsPresentInDefiningScope for one found id.
ShadowsMutNoPromoteTest(d) ==
  /\ d.isFunction
  /\ (d.isMethod \/ d.isOperator)
  /\ passes(d.recv)
  /\ (~converts(d.recv) \/ convertsWithBorrowing(d.recv))

Shadows(d) ==
  /\ d.isFunction
  /\ (d.isMethod \/ d.isOperator)
  /\ passes(d.recv)
  /\ (~converts(d.recv) \/ convertsWithBorrowing(d.recv))
  /\ ~promotes(d.recv)

RECURSIVE AnyShadows(_, _)
AnyShadows(vec, i) ==
  IF i > Len(vec) THEN FALSE
  ELSE IF Shadows(vec[i]) THEN TRUE
  ELSE AnyShadows(vec, i + 1)

areOverloadsPresentMutScopeTestInverted(type, name) ==
  LET compType == getCompositeType(type) IN
  IF compType = NullType \/ scopeForId(compType) THEN FALSE
  ELSE LET vec == lookupNameInScope(compType, name) IN
       IF Len(vec) = 0 THEN FALSE ELSE AnyShadows(vec, 1)

areOverloadsPresentInDefiningScope(type, name) ==
  LET compType == getCompositeType(type) IN
  IF compType = NullType \/ ~scopeForId(compType) THEN FALSE
  ELSE LET vec == lookupNameInScope(compType, name) IN
       IF Len(vec) = 0 THEN FALSE ELSE AnyShadows(vec, 1)

\* Returns TRUE for every name other than "==" and "=".
isBuiltinTypeOperator(name) == ~(name = "==" \/ name = "=")

needMutNoShadowCheck(type, name, parenless) ==
  IF isNameOfCompilerGeneratedMethod(name)
       \/ (isRecordType(type) /\ ~isBuiltinTypeOperator(name))
  THEN TRUE
  ELSE IF isTupleType(type) /\ name = "size" THEN TRUE
  ELSE IF isDomainType(type)
    THEN IF parenless THEN name \in DomainParenlessNames
         ELSE name \in DomainParenfulNames
  ELSE IF isArrayType(type) THEN name = "domain" \/ name = "eltType"
  ELSE IF isCPtrType(type) THEN name = "eltType"
  ELSE FALSE

needMutTupleSizeShadowChecked(type, name, parenless) ==
  IF (isNameOfCompilerGeneratedMethod(name)
        \/ (isRecordType(type) /\ ~isBuiltinTypeOperator(name))
        \/ (isTupleType(type) /\ name = "size"))
     /\ ~areOverloadsPresentInDefiningScope(type, name)
  THEN TRUE
  ELSE IF isDomainType(type)
    THEN IF parenless THEN name \in DomainParenlessNames
         ELSE name \in DomainParenfulNames
  ELSE IF isArrayType(type) THEN name = "domain" \/ name = "eltType"
  ELSE IF isCPtrType(type) THEN name = "eltType"
  ELSE FALSE

needMutRecordAnyName(type, name, parenless) ==
  IF (isNameOfCompilerGeneratedMethod(name)
        \/ (isRecordType(type) /\ ~(name = "==" \/ name = "=")))
     /\ ~areOverloadsPresentInDefiningScope(type, name)
  THEN TRUE
  ELSE IF isTupleType(type) /\ name = "size" THEN TRUE
  ELSE IF isDomainType(type)
    THEN IF parenless THEN name \in DomainParenlessNames
         ELSE name \in DomainParenfulNames
  ELSE IF isArrayType(type) THEN name = "domain" \/ name = "eltType"
  ELSE IF isCPtrType(type) THEN name = "eltType"
  ELSE FALSE

needMutDomainIgnoresParens(type, name, parenless) ==
  IF (isNameOfCompilerGeneratedMethod(name)
        \/ (isRecordType(type) /\ ~isBuiltinTypeOperator(name)))
     /\ ~areOverloadsPresentInDefiningScope(type, name)
  THEN TRUE
  ELSE IF isTupleType(type) /\ name = "size" THEN TRUE
  ELSE IF isDomainType(type)
    THEN name \in (DomainParenlessNames \cup DomainParenfulNames)
  ELSE IF isArrayType(type) THEN name = "domain" \/ name = "eltType"
  ELSE IF isCPtrType(type) THEN name = "eltType"
  ELSE FALSE

needMutArrayFollowsParenless(type, name, parenless) ==
  IF (isNameOfCompilerGeneratedMethod(name)
        \/ (isRecordType(type) /\ ~isBuiltinTypeOperator(name)))
     /\ ~areOverloadsPresentInDefiningScope(type, name)
  THEN TRUE
  ELSE IF isTupleType(type) /\ name = "size" THEN TRUE
  ELSE IF isDomainType(type)
    THEN IF parenless
           THEN name = "idxType" \/ name = "rank" \/ name = "stridable"
                  \/ name = "parSafe"
           ELSE name = "isRectangular" \/ name = "isAssociative"
  ELSE IF isArrayType(type)
    THEN IF parenless THEN name = "domain" \/ name = "eltType" ELSE FALSE
  ELSE IF isCPtrType(type) THEN name = "eltType"
  ELSE FALSE

needCompilerGeneratedMethod(type, name, parenless) ==
  IF (isNameOfCompilerGeneratedMethod(name)
        \/ (isRecordType(type) /\ ~isBuiltinTypeOperator(name)))
     /\ ~areOverloadsPresentInDefiningScope(type, name)
  THEN TRUE
  ELSE IF isTupleType(type) /\ name = "size" THEN TRUE
  ELSE IF isDomainType(type)
    THEN IF parenless
           THEN name = "idxType" \/ name = "rank" \/ name = "stridable"
                  \/ name = "parSafe"
           ELSE name = "isRectangular" \/ name = "isAssociative"
  ELSE IF isArrayType(type) THEN name = "domain" \/ name = "eltType"
  ELSE IF isCPtrType(type) THEN name = "eltType"
  ELSE FALSE

(***************************************************************************)
(* Signatures.  A TypedFnSignature with its UntypedFnSignature: formals    *)
(* holds the (name, hasDefault) details, formalTypes the qualified types.  *)
(***************************************************************************)
NullSig == [isNull |-> TRUE]

FormalDetail(name, hasDefault) == [name |-> name, hasDefault |-> hasDefault]

TypedFnSignature(name, isMethod, kind, formals, formalTypes, needsInstantiation) ==
  [isNull |-> FALSE, name |-> name, isMethod |-> isMethod,
   isCompilerGenerated |-> TRUE, kind |-> kind, formals |-> formals,
   formalTypes |-> formalTypes, needsInstantiation |-> needsInstantiation]

\* What a generator hands back: fatal when the process was aborted inside it.
Fatal == [fatal |-> TRUE, sig |-> NullSig]

Done(sig) == [fatal |-> FALSE, sig |-> sig]

\* CompositeType::instantiatedFromCompositeType: the generic type an
\* instantiation came from, null for a type that is not an instantiation.
instantiatedFromCompositeType(t) ==
  IF t.inst = "instantiated" THEN [t EXCEPT !.inst = "generic"] ELSE NullType

\* ClassType::get(context, basic, manager, decorator)
ClassTypeGet(basic, dec) == [basic EXCEPT !.decor = dec]

\* fieldsForTypeDecl with DefaultsPolicy::IGNORE_DEFAULTS
fieldsForTypeDecl(compType) ==
  [isGeneric |-> compType.inst = "generic", fields |-> compType.fields]

\* getTypeGenericity: a generic type all of whose type and param fields
\* have defaults is generic with defaults.
getTypeGenericity(t) ==
  IF t.inst # "generic" THEN "CONCRETE"
  ELSE IF /\ \E i \in 1..Len(t.fields) : t.fields[i].qt.kind \in {"TYPE", "PARAM"}
          /\ \A i \in 1..Len(t.fields) :
               t.fields[i].qt.kind \in {"TYPE", "PARAM"} => t.fields[i].hasDefault
    THEN "GENERIC_WITH_DEFAULTS"
  ELSE "GENERIC"

\* CHPL_UNIMPL aborts the compilation.
UnimplIsFatal == TRUE

(***************************************************************************)
(* Signature builders.                                                     *)
(***************************************************************************)
generateInitPartsMutNeverGeneric(inCompType, useGeneric) ==
  IF inCompType = NullType THEN [fatal |-> TRUE]
  ELSE
  LET genericCompType == instantiatedFromCompositeType(inCompType)
      compType == inCompType
      ufsFormals == <<FormalDetail("this", FALSE)>>
  IN IF isRecordType(compType) \/ isUnionType(compType)
       THEN [fatal |-> FALSE, compType |-> compType, ufsFormals |-> ufsFormals,
             formalTypes |-> <<QT("REF", compType)>>]
     ELSE IF compType.kind = "class"
       THEN [fatal |-> FALSE, compType |-> compType, ufsFormals |-> ufsFormals,
             formalTypes |->
               <<QT("CONST_IN", ClassTypeGet(compType, "BORROWED_NONNIL"))>>]
     ELSE IF asserts THEN [fatal |-> TRUE]
     ELSE [fatal |-> FALSE, compType |-> compType, ufsFormals |-> ufsFormals,
           formalTypes |-> <<QT("UNKNOWN", NullType)>>]

\* The receiver part shared by init, init= and deinit.  A null inCompType
\* is dereferenced at once: the process faults.
generateInitParts(inCompType, useGeneric) ==
  IF inCompType = NullType THEN [fatal |-> TRUE]
  ELSE
  LET genericCompType == instantiatedFromCompositeType(inCompType)
      compType == IF useGeneric /\ genericCompType # NullType
                    THEN genericCompType ELSE inCompType
      ufsFormals == <<FormalDetail("this", FALSE)>>
  IN IF isRecordType(compType) \/ isUnionType(compType)
       THEN [fatal |-> FALSE, compType |-> compType, ufsFormals |-> ufsFormals,
             formalTypes |-> <<QT("REF", compType)>>]
     ELSE IF compType.kind = "class"
       THEN [fatal |-> FALSE, compType |-> compType, ufsFormals |-> ufsFormals,
             formalTypes |->
               <<QT("CONST_IN", ClassTypeGet(compType, "BORROWED_NONNIL"))>>]
     ELSE IF asserts THEN [fatal |-> TRUE]
     ELSE [fatal |-> FALSE, compType |-> compType, ufsFormals |-> ufsFormals,
           formalTypes |-> <<QT("UNKNOWN", NullType)>>]

\* One formal per field, in order (the loop of generateInitSignature).
FieldFormalDetailMutNoTypeDefault(f) == FormalDetail(f.name, f.hasDefault)

FieldFormalDetail(f) ==
  FormalDetail(f.name, f.hasDefault \/ isTypeDefaultInitializable(f.qt.type))

FieldFormalType(f) ==
  IF f.qt.kind = "TYPE" \/ f.qt.kind = "PARAM" THEN f.qt
  ELSE QT("IN", f.qt.type)

generateInitSignature(inCompType) ==
  LET parts == generateInitParts(inCompType, TRUE) IN
  IF parts.fatal THEN Fatal
  ELSE
  LET compType == parts.compType
      rf == fieldsForTypeDecl(compType)
      n == Len(rf.fields)
  IN IF rf.isGeneric /\ asserts THEN Fatal
     ELSE IF compType.kind = "class" /\ compType.parent = "other" /\ UnimplIsFatal
       THEN Fatal
     ELSE Done(TypedFnSignature("init", TRUE, "PROC",
            parts.ufsFormals \o [i \in 1..n |-> FieldFormalDetail(rf.fields[i])],
            parts.formalTypes \o [i \in 1..n |-> FieldFormalType(rf.fields[i])],
            rf.isGeneric))

generateInitCopyMutOtherIsCompType(inCompType) ==
  LET parts == generateInitParts(inCompType, FALSE) IN
  IF parts.fatal THEN Fatal
  ELSE Done(TypedFnSignature("init=", TRUE, "PROC",
         Append(parts.ufsFormals, FormalDetail("other", FALSE)),
         Append(parts.formalTypes, QT("CONST_REF", parts.compType)),
         FALSE))

generateInitCopySignature(inCompType) ==
  LET parts == generateInitParts(inCompType, FALSE) IN
  IF parts.fatal THEN Fatal
  ELSE Done(TypedFnSignature("init=", TRUE, "PROC",
         Append(parts.ufsFormals, FormalDetail("other", FALSE)),
         Append(parts.formalTypes, QT("CONST_REF", parts.formalTypes[1].type)),
         FALSE))

generateDeinitSignature(inCompType) ==
  LET parts == generateInitParts(inCompType, FALSE) IN
  IF parts.fatal THEN Fatal
  ELSE Done(TypedFnSignature("deinit", TRUE, "PROC",
         parts.ufsFormals, parts.formalTypes, FALSE))

\* generateDomainMethod, generateArrayMethod, generateTupleMethod and
\* generateCPtrMethod build the same shape over their type.
generateQueryMethodMutFixedName(t, name) ==
  Done(TypedFnSignature("size", TRUE, "PROC",
         <<FormalDetail("this", FALSE)>>, <<QT("CONST_REF", t)>>, FALSE))

generateQueryMethod(t, name) ==
  Done(TypedFnSignature(name, TRUE, "PROC",
         <<FormalDetail("this", FALSE)>>, <<QT("CONST_REF", t)>>, FALSE))

generateDomainMethod(dt, name) == generateQueryMethod(dt, name)

generateArrayMethod(at, name) == generateQueryMethod(at, name)

generateTupleMethod(at, name) == generateQueryMethod(at, name)

generateCPtrMethod(cpt, name) == generateQueryMethod(cpt, name)

generateRecordBinaryOperator(op, lhsType, thisKind, lhsKind, rhsKind) ==
  LET genericCompType == instantiatedFromCompositeType(lhsType)
      compType == IF genericCompType # NullType THEN genericCompType ELSE lhsType
      g == getTypeGenericity(lhsType)
  IN IF asserts /\ ~isRecordType(compType) THEN Fatal
     ELSE Done(TypedFnSignature(op, TRUE, "OPERATOR",
            <<FormalDetail("this", FALSE), FormalDetail("lhs", FALSE),
              FormalDetail("rhs", FALSE)>>,
            <<QT(thisKind, compType), QT(lhsKind, compType), QT(rhsKind, compType)>>,
            g = "GENERIC" \/ g = "GENERIC_WITH_DEFAULTS"))

generateRecordAssignment(lhsType) ==
  generateRecordBinaryOperator("=", lhsType, "CONST_REF", "CONST_REF", "CONST_REF")

generateRecordComparisonMutAssignmentKinds(lhsType) ==
  generateRecordBinaryOperator("==", lhsType, "CONST_REF", "CONST_REF", "CONST_REF")

generateRecordComparison(lhsType) ==
  generateRecordBinaryOperator("==", lhsType, "REF", "REF", "CONST_REF")

(***************************************************************************)
(* Enum casts.                                                             *)
(***************************************************************************)
AnyIntegralType == [kind |-> "anyIntegral"]

generateToOrFromCastForEnumMutNoInversion(lhs, rhs, isFromCast) ==
  LET enumType == IF isFromCast THEN lhs.type ELSE rhs.type
  IN IF enumType.abstract THEN NullSig
     ELSE TypedFnSignature(":", FALSE, "OPERATOR",
            <<FormalDetail("from", FALSE), FormalDetail("to", FALSE)>>,
            <<QT("DEFAULT_INTENT", enumType), QT("TYPE", AnyIntegralType)>>,
            TRUE)

generateToOrFromCastForEnum(lhs, rhs, isFromCast) ==
  LET enumType == IF isFromCast THEN lhs.type ELSE rhs.type
      fromType == IF isFromCast THEN enumType ELSE AnyIntegralType
      toType == IF isFromCast THEN AnyIntegralType ELSE enumType
  IN IF enumType.abstract THEN NullSig
     ELSE TypedFnSignature(":", FALSE, "OPERATOR",
            <<FormalDetail("from", FALSE), FormalDetail("to", FALSE)>>,
            <<QT("DEFAULT_INTENT", fromType), QT("TYPE", toType)>>,
            TRUE)

generateCastFromEnum(lhs, rhs) == generateToOrFromCastForEnum(lhs, rhs, TRUE)

generateCastToEnum(lhs, rhs) == generateToOrFromCastForEnum(lhs, rhs, FALSE)

(***************************************************************************)
(* The bodies of the two dispatcher queries, between QUERY_BEGIN and       *)
(* QUERY_END.                                                              *)
(***************************************************************************)
\* The generator chosen once needCompilerGeneratedMethod said yes.
DispatchGenerator(type, name) ==
  LET compType == getCompositeType(type) IN
  IF asserts /\ compType = NullType /\ ~isCPtrType(type) THEN Fatal
  ELSE IF name = "init" THEN generateInitSignature(compType)
  ELSE IF name = "init=" THEN generateInitCopySignature(compType)
  ELSE IF name = "deinit" THEN generateDeinitSignature(compType)
  ELSE IF isDomainType(type) THEN generateDomainMethod(type, name)
  ELSE IF isArrayType(type) THEN generateArrayMethod(type, name)
  ELSE IF isTupleType(type) THEN generateTupleMethod(type, name)
  ELSE IF isRecordType(type)
    THEN IF name = "==" THEN generateRecordComparison(type)
         ELSE IF name = "=" THEN generateRecordAssignment(type)
         ELSE IF asserts THEN Fatal ELSE Done(NullSig)
  ELSE IF isCPtrType(type) THEN generateCPtrMethod(type, name)
  ELSE IF asserts THEN Fatal ELSE Done(NullSig)

\* The generator the dispatch chain calls for (type, name) once the decision
\* was true, and the composite type it hands to it; "none" when the
\* assertion on the composite type, or the one closing the chain, stops the
\* call first or the chain ends without a generator.
SelectedGenerator(type, name) ==
  LET compType == getCompositeType(type)
      Selected(gen) == [gen |-> gen, compType |-> compType]
  IN IF asserts /\ compType = NullType /\ ~isCPtrType(type) THEN Selected("none")
     ELSE IF name = "init" THEN Selected("generateInitSignature")
     ELSE IF name = "init=" THEN Selected("generateInitCopySignature")
     ELSE IF name = "deinit" THEN Selected("generateDeinitSignature")
     ELSE IF isDomainType(type) THEN Selected("generateDomainMethod")
     ELSE IF isArrayType(type) THEN Selected("generateArrayMethod")
     ELSE IF isTupleType(type) THEN Selected("generateTupleMethod")
     ELSE IF isRecordType(type)
       THEN IF name = "==" THEN Selected("generateRecordComparison")
            ELSE IF name = "=" THEN Selected("generateRecordAssignment")
            ELSE Selected("none")
     ELSE IF isCPtrType(type) THEN Selected("generateCPtrMethod")
     ELSE Selected("none")

\* CHPL_ASSERT(result->untyped()->name() == name): compiled in, it reads
\* through the result pointer, and a null result faults.
NameAssertFails(sig, name) ==
  asserts /\ (sig.isNull \/ sig.name # name)

MethodQueryBody(type, name, parenless) ==
  LET gen == IF needCompilerGeneratedMethod(type, name, parenless)
               THEN DispatchGenerator(type, name)
               ELSE Done(NullSig)
  IN IF gen.fatal THEN Fatal
     ELSE IF NameAssertFails(gen.sig, name) THEN Fatal
     ELSE gen

BinaryOpQueryBody(lhs, rhs, name) ==
  IF name = ":"
    THEN IF lhs.type # NullType /\ isEnumType(lhs.type)
           THEN Done(generateCastFromEnum(lhs, rhs))
         ELSE IF rhs.type # NullType /\ isEnumType(rhs.type)
           THEN Done(generateCastToEnum(lhs, rhs))
         ELSE Done(NullSig)
    ELSE Done(NullSig)

(***************************************************************************)
(* Inputs of the pure functions.                                           *)
(***************************************************************************)
DecorOf(k) == IF k = "class" THEN "BORROWED_NONNIL" ELSE "none"

\* Types as needCompilerGeneratedMethod sees them when asked about name n:
\* any kind, with or without a scope, the scope holding up to MaxDecls
\* declarations of that name.
NeedTypes(n) ==
  {MkType(k, DecorOf(k), "concrete", "none", TRUE, ds, <<>>, FALSE) :
     k \in CompositeKinds, ds \in SeqsUpTo(DeclShapes(n), MaxDecls)}
  \cup {MkType(k, DecorOf(k), "concrete", "none", FALSE, <<>>, <<>>, FALSE) :
     k \in Kinds}

NeedInputs ==
  UNION {[fn : {"need"}, type : NeedTypes(n), name : {n}, parenless : BOOLEAN] :
           n \in Names}

OverloadInputs ==
  UNION {[fn : {"overloads"}, type : NeedTypes(n), name : {n}] : n \in Names}

\* Composite types as the init, init= and deinit builders receive them.
\* A concrete type declares value fields only: a type or param field makes
\* the declaration generic.
FieldsFit(ins, fs) ==
  ins = "concrete" => \A i \in 1..Len(fs) : fs[i].qt.kind = "VAR"

GenTypes ==
  {t \in
     {MkType(k, "none", ins, "none", TRUE, <<>>, fs, FALSE) :
        k \in {"record", "union"}, ins \in {"concrete", "generic", "instantiated"},
        fs \in FieldLists}
     \cup
     {MkType("class", "BASIC", ins, par, TRUE, <<>>, fs, FALSE) :
        ins \in {"concrete", "generic", "instantiated"},
        par \in {"none", "object", "other"}, fs \in FieldLists} :
   FieldsFit(t.inst, t.fields)}

GenInputs == [fn : {"init", "init=", "deinit"}, type : GenTypes]

\* Types as the dispatcher query receives them when asked for name n: a
\* record that is plain, generic or an instantiation of a generic record,
\* its scope holding at most one declaration of n; a class as a managed
\* nilable class type; and one type of every kind without a scope.
QueryTypes(n) ==
  {MkType("record", "none", ins, "none", TRUE, ds,
          <<[name |-> FieldNameAt[1],
             qt |-> QT(IF ins = "concrete" THEN "VAR" ELSE "TYPE", "int"),
             hasDefault |-> hd]>>, FALSE) :
     ins \in {"concrete", "generic", "instantiated"},
     ds \in SeqsUpTo(DeclShapes(n), 1), hd \in BOOLEAN}
  \cup {MkType("class", "MANAGED_NILABLE", "concrete", par, TRUE, <<>>, <<>>, FALSE) :
          par \in {"object", "other"}}
  \cup {MkType(k, DecorOf(k), "concrete", "none", FALSE, <<>>, <<>>, FALSE) :
          k \in Kinds}

QueryInputs ==
  UNION {[fn : {"query"}, type : QueryTypes(n), name : {n}, parenless : BOOLEAN] :
           n \in Names}

NoInput == [fn |-> "none"]

NoCall == [op |-> "none", outcome |-> "none"]

EmptyMemo == [k \in {} |-> NullSig]

\* A host that resolves on one thread has no request in flight between calls.
NoRequests == <<>>

(***************************************************************************)
(* Initial states.                                                         *)
(***************************************************************************)
\* A fresh compilation context: both result tables empty.
Init ==
  /\ asserts \in BOOLEAN
  /\ input = NoInput
  /\ methodMemo = EmptyMemo
  /\ binaryMemo = EmptyMemo
  /\ accessorMemo = EmptyMemo
  /\ requests = NoRequests
  /\ last = NoCall

\* One application of a pure function to arguments drawn from the inputs.
PureInit ==
  /\ input \in NeedInputs \cup OverloadInputs \cup GenInputs \cup QueryInputs
  /\ asserts \in (IF input.fn \in {"need", "overloads"} THEN {TRUE} ELSE BOOLEAN)
  /\ methodMemo = EmptyMemo
  /\ binaryMemo = EmptyMemo
  /\ accessorMemo = EmptyMemo
  /\ requests = NoRequests
  /\ last = NoCall

(***************************************************************************)
(* Pure applications.                                                      *)
(***************************************************************************)
Observe(op, gen) ==
  [op |-> op, outcome |-> IF gen.fatal THEN "fatal" ELSE "returned",
   result |-> gen.sig]

ApplyNeed ==
  /\ input.fn = "need"
  /\ last = NoCall
  /\ last' = [op |-> "need", outcome |-> "returned",
              result |-> needCompilerGeneratedMethod(input.type, input.name,
                                                     input.parenless)]
  /\ UNCHANGED <<asserts, input, methodMemo, binaryMemo, accessorMemo, requests>>

ApplyOverloadsPresent ==
  /\ input.fn = "overloads"
  /\ last = NoCall
  /\ last' = [op |-> "overloads", outcome |-> "returned",
              result |-> areOverloadsPresentInDefiningScope(input.type, input.name)]
  /\ UNCHANGED <<asserts, input, methodMemo, binaryMemo, accessorMemo, requests>>

ApplyInit ==
  /\ input.fn = "init"
  /\ last = NoCall
  /\ last' = Observe("init", generateInitSignature(input.type))
  /\ UNCHANGED <<asserts, input, methodMemo, binaryMemo, accessorMemo, requests>>

ApplyInitCopy ==
  /\ input.fn = "init="
  /\ last = NoCall
  /\ last' = Observe("init=", generateInitCopySignature(input.type))
  /\ UNCHANGED <<asserts, input, methodMemo, binaryMemo, accessorMemo, requests>>

ApplyDeinit ==
  /\ input.fn = "deinit"
  /\ last = NoCall
  /\ last' = Observe("deinit", generateDeinitSignature(input.type))
  /\ UNCHANGED <<asserts, input, methodMemo, binaryMemo, accessorMemo, requests>>

\* The body of getCompilerGeneratedMethodQuery on a key not yet stored.
ApplyMethodQueryBody ==
  /\ input.fn = "query"
  /\ last = NoCall
  /\ last' = Observe("query",
                MethodQueryBody(input.type, input.name, input.parenless))
  /\ UNCHANGED <<asserts, input, methodMemo, binaryMemo, accessorMemo, requests>>

PureNext ==
  \/ ApplyNeed
  \/ ApplyOverloadsPresent
  \/ ApplyInit
  \/ ApplyInitCopy
  \/ ApplyDeinit
  \/ ApplyMethodQueryBody

PureSpec == PureInit /\ [][PureNext]_vars

(***************************************************************************)
(* The memoized dispatcher.  The types of one compilation context, the     *)
(* names requested of them, and the operand types of binary operators.     *)
(***************************************************************************)
UserMethod(n, r) ==
  [name |-> n, isFunction |-> TRUE, isMethod |-> TRUE, isOperator |-> FALSE,
   recv |-> r]

ValueField(i, ft, hasDefault) ==
  [name |-> FieldNameAt[i], qt |-> QT("VAR", ft), hasDefault |-> hasDefault]

\* record R { var a: int; }
RecPlain ==
  MkType("record", "none", "concrete", "none", TRUE, <<>>,
         <<ValueField(1, "int", FALSE)>>, FALSE)

\* record S { var a: owned C; proc init(...) {...}  operator ==(...) {...} }
RecUser ==
  MkType("record", "none", "concrete", "none", TRUE,
         <<UserMethod("init", [passes |-> TRUE, conv |-> "NONE", promotes |-> FALSE]),
           [name |-> "==", isFunction |-> TRUE, isMethod |-> FALSE,
            isOperator |-> TRUE,
            recv |-> [passes |-> TRUE, conv |-> "NONE", promotes |-> FALSE]]>>,
         <<ValueField(1, "owned C", FALSE)>>, FALSE)

\* class C { var a: int = 1; }, requested through a managed nilable C
ClassC ==
  MkType("class", "MANAGED_NILABLE", "concrete", "object", TRUE, <<>>,
         <<ValueField(1, "int", TRUE)>>, FALSE)

\* record G { type t; }
RecGeneric ==
  MkType("record", "none", "generic", "none", TRUE, <<>>,
         <<[name |-> FieldNameAt[1], qt |-> QT("TYPE", "int"),
            hasDefault |-> FALSE]>>, FALSE)

PlainOf(k) == MkType(k, "none", "concrete", "none", FALSE, <<>>, <<>>, FALSE)

EnumConcrete == PlainOf("enum")

EnumAbstract == [PlainOf("enum") EXCEPT !.abstract = TRUE]

CtxTypes ==
  {RecPlain, RecUser, RecGeneric, ClassC, PlainOf("tuple"),
   PlainOf("domain"), PlainOf("cptr"), EnumConcrete}

CtxNames == {"init", "==", "size", "rank"}

CtxOperands == {QT("VAR", EnumConcrete), QT("VAR", EnumAbstract), QT("VAR", RecPlain)}

CtxOperatorNames == {":", "=="}

MethodKey(type, name, parenless) ==
  [type |-> type, name |-> name, parenless |-> parenless]

BinaryKey(lhs, rhs, name) == [lhs |-> lhs, rhs |-> rhs, name |-> name]

\* QUERY_BEGIN: a key already in the table returns its stored result.
QueryHasResult(memo, key) == key \in DOMAIN memo

\* QUERY_END: the result is stored under the key.
QueryEnd(memo, key, result) == memo @@ (key :> result)

Stored ==
  Cardinality(DOMAIN methodMemo) + Cardinality(DOMAIN binaryMemo)
    + Cardinality(DOMAIN accessorMemo)

\* A fatal signal ends the process: no call follows it.
Alive == last.outcome # "fatal"

MethodCall(key, outcome, result, computed) ==
  [op |-> "method", type |-> key.type, name |-> key.name,
   parenless |-> key.parenless, outcome |-> outcome, result |-> result,
   computed |-> computed]

BinaryCall(key, outcome, result, computed) ==
  [op |-> "binary", lhs |-> key.lhs, rhs |-> key.rhs, name |-> key.name,
   outcome |-> outcome, result |-> result, computed |-> computed]

getCompilerGeneratedMethodQueryMutNoMemo(type, name, parenless) ==
  LET key == MethodKey(type, name, parenless)
      body == MethodQueryBody(type, name, parenless)
  IN /\ Alive
     /\ IF QueryHasResult(methodMemo, key) THEN TRUE ELSE Stored < MaxCalls
     /\ IF body.fatal
          THEN /\ last' = MethodCall(key, "fatal", NullSig, TRUE)
               /\ UNCHANGED methodMemo
          ELSE /\ last' = MethodCall(key, "returned", body.sig, TRUE)
               /\ methodMemo' = [k \in DOMAIN methodMemo \cup {key} |->
                                   IF k = key THEN body.sig ELSE methodMemo[k]]
     /\ UNCHANGED <<asserts, input, binaryMemo, accessorMemo, requests>>

getCompilerGeneratedMethodQuery(type, name, parenless) ==
  LET key == MethodKey(type, name, parenless) IN
  /\ Alive
  /\ IF QueryHasResult(methodMemo, key)
       THEN /\ last' = MethodCall(key, "returned", methodMemo[key], FALSE)
            /\ UNCHANGED methodMemo
       ELSE LET body == MethodQueryBody(type, name, parenless) IN
            /\ Stored < MaxCalls
            /\ IF body.fatal
                 THEN /\ last' = MethodCall(key, "fatal", NullSig, TRUE)
                      /\ UNCHANGED methodMemo
                 ELSE /\ last' = MethodCall(key, "returned", body.sig, TRUE)
                      /\ methodMemo' = QueryEnd(methodMemo, key, body.sig)
  /\ UNCHANGED <<asserts, input, binaryMemo, accessorMemo, requests>>

getCompilerGeneratedMethod ==
  \E type \in CtxTypes, name \in CtxNames, parenless \in BOOLEAN :
    getCompilerGeneratedMethodQuery(type, name, parenless)

getCompilerGeneratedBinaryOpQuery(lhs, rhs, name) ==
  LET key == BinaryKey(lhs, rhs, name) IN
  /\ Alive
  /\ IF QueryHasResult(binaryMemo, key)
       THEN /\ last' = BinaryCall(key, "returned", binaryMemo[key], FALSE)
            /\ UNCHANGED binaryMemo
       ELSE LET body == BinaryOpQueryBody(lhs, rhs, name) IN
            /\ Stored < MaxCalls
            /\ last' = BinaryCall(key, "returned", body.sig, TRUE)
            /\ binaryMemo' = QueryEnd(binaryMemo, key, body.sig)
  /\ UNCHANGED <<asserts, input, methodMemo, accessorMemo, requests>>

getCompilerGeneratedBinaryOp ==
  \E lhs \in CtxOperands, rhs \in CtxOperands, name \in CtxOperatorNames :
    getCompilerGeneratedBinaryOpQuery(lhs, rhs, name)

\* The composite types and field names fieldAccessor is asked about: no
\* type, the record R, the basic class of C; a declared field and a name
\* that no field carries.
AccessorTypes == {NullType, RecPlain, getCompositeType(ClassC)}

AccessorFields == {FieldNameAt[1], FieldNameAt[2]}

AccessorKey(compType, fieldName) == [compType |-> compType, fieldName |-> fieldName]

AccessorCall(key, outcome, result, computed) ==
  [op |-> "accessor", compType |-> key.compType, fieldName |-> key.fieldName,
   outcome |-> outcome, result |-> result, computed |-> computed]

\* The body of fieldAccessorQuery, between QUERY_BEGIN and QUERY_END.
FieldAccessorQueryBodyMutClassUnborrowed(compType, fieldName) ==
  TypedFnSignature(fieldName, TRUE, "PROC",
    <<FormalDetail("this", FALSE)>>, <<QT("REF_MAYBE_CONST", compType)>>, FALSE)

FieldAccessorQueryBody(compType, fieldName) ==
  LET thisType == IF compType.kind = "class"
                    THEN ClassTypeGet(compType, "BORROWED_NONNIL")
                    ELSE compType
  IN TypedFnSignature(fieldName, TRUE, "PROC",
       <<FormalDetail("this", FALSE)>>, <<QT("REF_MAYBE_CONST", thisType)>>, FALSE)

fieldAccessorQuery(compType, fieldName) ==
  LET key == AccessorKey(compType, fieldName) IN
  /\ IF QueryHasResult(accessorMemo, key)
       THEN /\ last' = AccessorCall(key, "returned", accessorMemo[key], FALSE)
            /\ UNCHANGED accessorMemo
       ELSE LET result == FieldAccessorQueryBody(compType, fieldName) IN
            /\ Stored < MaxCalls
            /\ last' = AccessorCall(key, "returned", result, TRUE)
            /\ accessorMemo' = QueryEnd(accessorMemo, key, result)
  /\ UNCHANGED <<asserts, input, methodMemo, binaryMemo, requests>>

fieldAccessor ==
  \E compType \in AccessorTypes, fieldName \in AccessorFields :
    /\ Alive
    /\ IF compType = NullType
         THEN /\ last' = AccessorCall(AccessorKey(compType, fieldName),
                                      "returned", NullSig, FALSE)
              /\ UNCHANGED <<asserts, input, methodMemo, binaryMemo,
                             accessorMemo, requests>>
         ELSE fieldAccessorQuery(compType, fieldName)

Next ==
  \/ getCompilerGeneratedMethod
  \/ getCompilerGeneratedBinaryOp
  \/ fieldAccessor

Spec == Init /\ [][Next]_vars

(***************************************************************************)
(* The dispatcher query under a parallel host.  Each request runs on its   *)
(* own thread against the shared result table, under the discipline the    *)
(* host must provide: mutual exclusion per key around compute-if-absent,   *)
(* and lock-free reads of entries already stored.  A request is idle,      *)
(* computing (it holds the lock of its key and runs the query body),       *)
(* waiting (another request holds the lock of its key), returned, or       *)
(* fatal.                                                                  *)
(***************************************************************************)
Requesters == 1..MaxRequests

ConcKeys ==
  {MethodKey(RecPlain, "init", FALSE), MethodKey(RecPlain, "==", FALSE),
   MethodKey(ClassC, "init", FALSE), MethodKey(PlainOf("tuple"), "size", FALSE),
   MethodKey(PlainOf("domain"), "rank", TRUE),
   MethodKey(PlainOf("domain"), "rank", FALSE)}

Request(state, key, result, computed, waited) ==
  [state |-> state, key |-> key, result |-> result, computed |-> computed,
   waited |-> waited]

IdleRequest == Request("idle", [name |-> "none"], NullSig, FALSE, FALSE)

ConcInit ==
  /\ asserts \in BOOLEAN
  /\ input = NoInput
  /\ methodMemo = EmptyMemo
  /\ binaryMemo = EmptyMemo
  /\ accessorMemo = EmptyMemo
  /\ requests = [r \in Requesters |-> IdleRequest]
  /\ last = NoCall

\* A fatal signal on any thread ends the process.
ProcessAlive == \A r \in Requesters : requests[r].state # "fatal"

KeyLocked(key) ==
  \E r \in Requesters : requests[r].state = "computing" /\ requests[r].key = key

\* QUERY_BEGIN on a thread: a stored key returns its entry; a key another
\* request is computing makes this request wait; otherwise the request
\* takes the key and runs the body.
BeginRequestMutNoExclusion(r, key) ==
  /\ ProcessAlive
  /\ requests[r].state = "idle"
  /\ requests' =
       [requests EXCEPT ![r] =
          IF QueryHasResult(methodMemo, key)
            THEN Request("returned", key, methodMemo[key], FALSE, FALSE)
          ELSE Request("computing", key, NullSig, FALSE, FALSE)]
  /\ UNCHANGED <<asserts, input, methodMemo, binaryMemo, accessorMemo, last>>

BeginRequest(r, key) ==
  /\ ProcessAlive
  /\ requests[r].state = "idle"
  /\ requests' =
       [requests EXCEPT ![r] =
          IF QueryHasResult(methodMemo, key)
            THEN Request("returned", key, methodMemo[key], FALSE, FALSE)
          ELSE IF KeyLocked(key)
            THEN Request("waiting", key, NullSig, FALSE, TRUE)
          ELSE Request("computing", key, NullSig, FALSE, FALSE)]
  /\ UNCHANGED <<asserts, input, methodMemo, binaryMemo, accessorMemo, last>>

\* The body of the query and QUERY_END on the thread that holds the key.
FinishRequest(r) ==
  LET key == requests[r].key
      body == MethodQueryBody(key.type, key.name, key.parenless)
  IN /\ ProcessAlive
     /\ requests[r].state = "computing"
     /\ IF body.fatal
          THEN /\ requests' = [requests EXCEPT ![r] =
                                Request("fatal", key, NullSig, TRUE, FALSE)]
               /\ UNCHANGED methodMemo
          ELSE /\ requests' = [requests EXCEPT ![r] =
                                Request("returned", key, body.sig, TRUE, FALSE)]
               /\ methodMemo' = QueryEnd(methodMemo, key, body.sig)
     /\ UNCHANGED <<asserts, input, binaryMemo, accessorMemo, last>>

\* A waiting request proceeds once the entry of its key is stored.
ResumeRequest(r) ==
  /\ ProcessAlive
  /\ requests[r].state = "waiting"
  /\ QueryHasResult(methodMemo, requests[r].key)
  /\ requests' = [requests EXCEPT ![r] =
                    Request("returned", requests[r].key,
                            methodMemo[requests[r].key], FALSE, TRUE)]
  /\ UNCHANGED <<asserts, input, methodMemo, binaryMemo, accessorMemo, last>>

ConcNext ==
  \/ \E r \in Requesters, key \in ConcKeys : BeginRequest(r, key)
  \/ \E r \in Requesters : FinishRequest(r)
  \/ \E r \in Requesters : ResumeRequest(r)

ConcSpec == ConcInit /\ [][ConcNext]_vars

\* The requests that ran, or are running, the query body for a key.
RanBody(key) ==
  {r \in Requesters :
     /\ requests[r].key = key
     /\ (requests[r].state = "computing" \/ requests[r].computed)}

\* C15: of the requests for one key that run concurrently against the
\* shared result table at most one runs the query body, and all that
\* return hold the one stored signature; a request returns what the body
\* yields for its own key, whatever request for another key is computing
\* at the same time.
C15_ComputedOncePerKey ==
  /\ \A key \in ConcKeys : Cardinality(RanBody(key)) <= 1
  /\ \A r \in Requesters :
       requests[r].state = "returned"
         => /\ QueryHasResult(methodMemo, requests[r].key)
            /\ requests[r].result = methodMemo[requests[r].key]
            /\ requests[r].result =
                 MethodQueryBody(requests[r].key.type, requests[r].key.name,
                                 requests[r].key.parenless).sig
  /\ \A r1, r2 \in Requesters :
       (/\ requests[r1].state = "returned"
        /\ requests[r2].state = "returned"
        /\ requests[r1].key = requests[r2].key)
         => requests[r1].result = requests[r2].result

\* Two requests for the same key overlapped: one computed the signature,
\* the other waited for it, and both returned it.
C15_Witness ==
  \E r1, r2 \in Requesters :
    /\ r1 # r2
    /\ requests[r1].state = "returned" /\ requests[r1].computed
    /\ requests[r2].state = "returned" /\ requests[r2].waited
    /\ requests[r1].key = requests[r2].key
    /\ ~requests[r1].result.isNull
    /\ requests[r2].result = requests[r1].result

(***************************************************************************)
(* Properties of the memoized dispatcher.                                  *)
(***************************************************************************)
\* What one step may do to a result table: every stored entry stays, with
\* the result it had.
EntriesKept(memo, memoNext) ==
  \A k \in DOMAIN memo : k \in DOMAIN memoNext /\ memoNext[k] = memo[k]

\* What a step that ends a call shows of the table the call found: a key
\* already stored returns the stored result without running the generator,
\* a new key stores the result it returns.
CallAnswersFromTable(memo, memoNext, key, call) ==
  /\ key \in DOMAIN memo
       => /\ call.outcome = "returned"
          /\ call.result = memo[key]
          /\ ~call.computed
  /\ (key \notin DOMAIN memo /\ call.outcome = "returned")
       => /\ call.computed
          /\ key \in DOMAIN memoNext
          /\ memoNext[key] = call.result

C1_Step ==
  /\ EntriesKept(methodMemo, methodMemo')
  /\ EntriesKept(binaryMemo, binaryMemo')
  /\ (last' # last /\ last'.op = "method")
       => CallAnswersFromTable(methodMemo, methodMemo',
            MethodKey(last'.type, last'.name, last'.parenless), last')
  /\ (last' # last /\ last'.op = "binary")
       => CallAnswersFromTable(binaryMemo, binaryMemo',
            BinaryKey(last'.lhs, last'.rhs, last'.name), last')

\* C1: within one context a call with a key already stored returns the
\* stored result without running the generator again, the first call with a
\* key stores what it returns, and no call replaces or removes a stored
\* entry, of its own key or of another.
C1_StoredResultsAreStable == [][C1_Step]_vars

\* A second call with a stored key, after a call with another key, returns
\* the stored signature without computing.
C1_Witness ==
  /\ last.op = "method"
  /\ last.outcome = "returned"
  /\ ~last.computed
  /\ ~last.result.isNull
  /\ Stored = 2
  /\ MethodKey(last.type, last.name, last.parenless) \in DOMAIN methodMemo
  /\ methodMemo[MethodKey(last.type, last.name, last.parenless)] = last.result

\* What fieldAccessorQuery builds for a composite type and a field name.
AccessorShape(s, compType, fieldName) ==
  /\ ~s.isNull
  /\ s.name = fieldName
  /\ s.isMethod
  /\ s.isCompilerGenerated
  /\ s.formals = <<FormalDetail("this", FALSE)>>
  /\ s.formalTypes =
       <<QT("REF_MAYBE_CONST",
            IF compType.kind = "class"
              THEN [compType EXCEPT !.decor = "BORROWED_NONNIL"]
              ELSE compType)>>
  /\ s.needsInstantiation = FALSE

C18_Step ==
  /\ EntriesKept(accessorMemo, accessorMemo')
  /\ (last' # last /\ last'.op = "accessor")
       => /\ last'.outcome = "returned"
          /\ last'.result.isNull <=> last'.compType = NullType
          /\ last'.compType # NullType
               => /\ CallAnswersFromTable(accessorMemo, accessorMemo',
                       AccessorKey(last'.compType, last'.fieldName), last')
                  /\ AccessorShape(last'.result, last'.compType, last'.fieldName)

\* C18: fieldAccessor(compType, fieldName) returns null exactly when
\* compType is null; otherwise it returns the signature stored for
\* (compType, fieldName), built on the first call and returned unchanged by
\* every later one: a compiler-generated method named fieldName whose only
\* formal is the receiver this of kind REF_MAYBE_CONST, typed as the
\* composite type, or as the non-nilable borrowed class type for a class,
\* with needsInstantiation false.
C18_FieldAccessorShapeAndMemo == [][C18_Step]_vars

\* A repeated request for a field of the class, answered from the table.
C18_Witness ==
  /\ last.op = "accessor"
  /\ last.compType.kind = "class"
  /\ ~last.computed
  /\ accessorMemo[AccessorKey(last.compType, last.fieldName)] = last.result
  /\ last.result.name = last.fieldName
  /\ last.result.formalTypes[1].type.decor = "BORROWED_NONNIL"

\* C2: a call of getCompilerGeneratedMethod for which
\* needCompilerGeneratedMethod answers false completes normally and returns
\* null.
C2_NotGeneratedReturnsNull ==
  (/\ last.op = "method"
   /\ ~needCompilerGeneratedMethod(last.type, last.name, last.parenless))
  => (last.outcome = "returned" /\ last.result = NullSig)

\* An init request the builder does not support: the field set of the
\* composite type is generic, or the type is a class whose parent class is
\* not the root object type.
UnsupportedInit(t) ==
  LET c == getCompositeType(t) IN
  /\ c # NullType
  /\ \/ fieldsForTypeDecl(c).isGeneric
     \/ (c.kind = "class" /\ c.parent = "other")

\* C14: a request for a generated init on a composite type whose field set
\* is generic, or on a class whose parent class is not the root object
\* type, ends in a fatal signal, returning no signature and storing none
\* under its key; so every init signature a caller observes, returned or
\* stored, has needsInstantiation false.
C14_UnsupportedInitIsFatal ==
  /\ (/\ last.op = "method"
      /\ last.name = "init"
      /\ needCompilerGeneratedMethod(last.type, last.name, last.parenless)
      /\ UnsupportedInit(last.type))
     => /\ last.outcome = "fatal"
        /\ MethodKey(last.type, last.name, last.parenless) \notin DOMAIN methodMemo
  /\ (/\ last.op = "method"
      /\ last.name = "init"
      /\ last.outcome = "returned"
      /\ ~last.result.isNull)
     => ~last.result.needsInstantiation
  /\ \A k \in DOMAIN methodMemo :
       (k.name = "init" /\ ~methodMemo[k].isNull)
         => ~methodMemo[k].needsInstantiation

(***************************************************************************)
(* Properties of the generation decision.                                  *)
(***************************************************************************)
ExactPass == [passes |-> TRUE, conv |-> "NONE", promotes |-> FALSE]

\* The scope of t holds a user-written method of that name whose receiver
\* formal accepts t exactly.
HasExactUserMethod(t, name) ==
  /\ t.scoped
  /\ \E i \in 1..Len(t.decls) :
       /\ t.decls[i].name = name
       /\ t.decls[i].isFunction
       /\ t.decls[i].isMethod
       /\ t.decls[i].recv = ExactPass

\* The scope of t holds a declaration of that name that is a method or an
\* operator function whose receiver applicability passes, converts not at
\* all or by borrowing, and does not promote.
HasShadowingDecl(t, name) ==
  /\ t.kind \in CompositeKinds
  /\ t.scoped
  /\ \E i \in 1..Len(t.decls) :
       LET d == t.decls[i] IN
       /\ d.name = name
       /\ d.isFunction
       /\ (d.isMethod \/ d.isOperator)
       /\ d.recv.passes
       /\ d.recv.conv \in {"NONE", "BORROWS"}
       /\ ~d.recv.promotes

NeedAnswered == last.op = "need" /\ last.outcome = "returned"

\* C3: for a record whose defining scope holds a user-written method of the
\* requested name accepting the record exactly, needCompilerGeneratedMethod
\* answers false for init, deinit, init= and for every name other than "=="
\* and "=", whatever parenless is.
C3_ShadowedRecordMethodNotGenerated ==
  (/\ NeedAnswered
   /\ isRecordType(input.type)
   /\ HasExactUserMethod(input.type, input.name)
   /\ input.name \notin {"==", "="})
  => last.result = FALSE

C3_Witness ==
  /\ NeedAnswered
  /\ isRecordType(input.type)
  /\ HasExactUserMethod(input.type, input.name)
  /\ input.name = "init"
  /\ Len(input.type.decls) = 2
  /\ ~Shadows(input.type.decls[1])
  /\ last.result = FALSE

\* C4: for a type of any kind and a name in {init, deinit, init=},
\* needCompilerGeneratedMethod answers true exactly when the shadow check
\* finds no shadowing overload, and so answers true for a type without a
\* defining scope.
C4_InitNamesGeneratedIffNotShadowed ==
  (NeedAnswered /\ input.name \in InitNames)
  => /\ last.result = ~HasShadowingDecl(input.type, input.name)
     /\ (getCompositeType(input.type) = NullType \/ ~input.type.scoped)
          => last.result = TRUE

C4_Witness ==
  /\ NeedAnswered
  /\ input.name = "deinit"
  /\ input.type.kind = "enum"
  /\ last.result = TRUE

\* C5 as stated: for a record and a name that is not "==" or "=",
\* needCompilerGeneratedMethod answers true when no user overload in the
\* record's scope shadows the name.
C5_Original_RecordOtherNamesGenerated ==
  (/\ NeedAnswered
   /\ isRecordType(input.type)
   /\ input.name \notin {"==", "="}
   /\ ~HasShadowingDecl(input.type, input.name))
  => last.result = TRUE

\* C5 amended: for a record and a name that is "==" or "=",
\* needCompilerGeneratedMethod answers true exactly when no user overload in
\* the record's scope shadows the name; for a record and a name outside
\* {init, deinit, init=, ==, =} it answers false.
C5_RecordOperatorsGeneratedIffNotShadowed ==
  (NeedAnswered /\ isRecordType(input.type))
  => /\ input.name \in {"==", "="}
          => last.result = ~HasShadowingDecl(input.type, input.name)
     /\ input.name \notin (InitNames \cup {"==", "="}) => last.result = FALSE

C5_Witness ==
  /\ NeedAnswered
  /\ isRecordType(input.type)
  /\ input.name = "=="
  /\ input.type.scoped
  /\ Len(input.type.decls) = 1
  /\ ~HasShadowingDecl(input.type, input.name)
  /\ last.result = TRUE

\* C6: the shadow check answers "shadowed" exactly when the defining scope
\* holds a declaration of the name that is a method or operator function
\* whose receiver applicability passes, converts not at all or by implicit
\* borrowing, and does not promote.
C6_ShadowedIffApplicableOverload ==
  (last.op = "overloads" /\ last.outcome = "returned")
  => last.result = HasShadowingDecl(input.type, input.name)

C6_Witness ==
  /\ last.op = "overloads"
  /\ Len(input.type.decls) = 2
  /\ input.type.decls[1].isFunction /\ input.type.decls[1].isMethod
  /\ input.type.decls[1].recv.passes /\ input.type.decls[1].recv.promotes
  /\ input.type.decls[2].isOperator
  /\ input.type.decls[2].recv.conv = "BORROWS"
  /\ ~input.type.decls[2].recv.promotes
  /\ last.result = TRUE

\* C7: for a tuple type and the name size, needCompilerGeneratedMethod
\* answers true for either parenless value and whatever declarations named
\* size the scope holds.
C7_TupleSizeAlwaysGenerated ==
  (NeedAnswered /\ isTupleType(input.type) /\ input.name = "size")
  => last.result = TRUE

C7_Witness ==
  /\ NeedAnswered
  /\ isTupleType(input.type)
  /\ input.name = "size"
  /\ HasShadowingDecl(input.type, "size")
  /\ input.parenless
  /\ last.result = TRUE

\* C8: on a domain type, idxType, rank, stridable and parSafe are generated
\* exactly when parenless is true, isRectangular and isAssociative exactly
\* when parenless is false.
C8_DomainMethodsFollowParenless ==
  (NeedAnswered /\ isDomainType(input.type))
  => /\ input.name \in {"idxType", "rank", "stridable", "parSafe"}
          => last.result = input.parenless
     /\ input.name \in {"isRectangular", "isAssociative"}
          => last.result = ~input.parenless

C8_Witness ==
  /\ NeedAnswered
  /\ isDomainType(input.type)
  /\ input.name = "idxType"
  /\ ~input.parenless
  /\ last.result = FALSE

\* The names some rule generates on a type of kind k other than a record.
GeneratedNamesOf(k) ==
  IF k = "tuple" THEN InitNames \cup {"size"}
  ELSE IF k = "domain"
    THEN InitNames \cup DomainParenlessNames \cup DomainParenfulNames
  ELSE IF k = "array" THEN InitNames \cup ArrayNames
  ELSE IF k = "cptr" THEN InitNames \cup {"eltType"}
  ELSE InitNames

C9_InitFormalsFollowFields ==
  (last.op = "init" /\ last.outcome = "returned")
  => LET s == last.result
         fs == input.type.fields
         n == Len(fs)
     IN /\ ~s.isNull
        /\ Len(s.formals) = n + 1
        /\ Len(s.formalTypes) = n + 1
        /\ s.formals[1].name = "this"
        /\ \A i \in 1..n :
             /\ s.formals[i + 1].name = fs[i].name
             /\ fs[i].qt.kind \in {"TYPE", "PARAM"}
                  => s.formalTypes[i + 1] = fs[i].qt
             /\ fs[i].qt.kind \notin {"TYPE", "PARAM"}
                  => s.formalTypes[i + 1] = QT("IN", fs[i].qt.type)
             /\ s.formals[i + 1].hasDefault
                  = (fs[i].hasDefault \/ fs[i].qt.type = "int")

\* A non-generic record with two value fields: the first without a default
\* value but of a default-initializable type, the second with neither.
C9_Witness ==
  /\ last.op = "init" /\ last.outcome = "returned"
  /\ isRecordType(input.type)
  /\ input.type.inst = "concrete"
  /\ Len(input.type.fields) = 2
  /\ ~input.type.fields[1].hasDefault /\ input.type.fields[1].qt.type = "int"
  /\ ~input.type.fields[2].hasDefault /\ input.type.fields[2].qt.type = "owned C"
  /\ last.result.formals[2].hasDefault
  /\ ~last.result.formals[3].hasDefault
  /\ last.result.formalTypes[3].kind = "IN"

\* C10: the generated init= signature of a record, union or class has
\* exactly the formals this and other; this has kind REF for a record or
\* union and CONST_IN for a class, other has kind CONST_REF and the type of
\* the this formal (for a class the non-nilable borrowed class type);
\* needsInstantiation is false, for a generic type too.
C10_InitCopyShape ==
  last.op = "init="
  => /\ last.outcome = "returned"
     /\ LET s == last.result
            t == input.type
            recvType == IF t.kind = "class"
                          THEN [t EXCEPT !.decor = "BORROWED_NONNIL"] ELSE t
        IN /\ ~s.isNull
           /\ Len(s.formals) = 2 /\ Len(s.formalTypes) = 2
           /\ s.formals[1].name = "this" /\ s.formals[2].name = "other"
           /\ s.formalTypes[1] =
                QT(IF t.kind = "class" THEN "CONST_IN" ELSE "REF", recvType)
           /\ s.formalTypes[2] = QT("CONST_REF", recvType)
           /\ s.needsInstantiation = FALSE

C10_Witness ==
  /\ last.op = "init=" /\ last.outcome = "returned"
  /\ input.type.kind = "class"
  /\ input.type.inst = "generic"
  /\ last.result.formalTypes[2].type.decor = "BORROWED_NONNIL"
  /\ last.result.needsInstantiation = FALSE

(***************************************************************************)
(* Properties of the dispatcher query body.                                *)
(***************************************************************************)
\* The generic type an instantiation came from, any other type itself.
GenericStripped(t) ==
  IF t.inst = "instantiated" THEN [t EXCEPT !.inst = "generic"] ELSE t

QueryApplied == last.op = "query"

OperatorFormalsAre(s, t, thisKind, lhsKind, rhsKind) ==
  /\ Len(s.formals) = 3 /\ Len(s.formalTypes) = 3
  /\ s.formals[1].name = "this"
  /\ s.formals[2].name = "lhs"
  /\ s.formals[3].name = "rhs"
  /\ s.formalTypes = <<QT(thisKind, t), QT(lhsKind, t), QT(rhsKind, t)>>

\* C11: for a record with no shadowing user overload, the generated "=="
\* is an operator method with exactly the formals this, lhs, rhs of kinds
\* REF, REF, CONST_REF, the generated "=" one with kinds CONST_REF,
\* CONST_REF, CONST_REF; all three formals have the generic-stripped record
\* type, for either value of parenless.
C11_RecordOperatorShape ==
  (/\ QueryApplied
   /\ isRecordType(input.type)
   /\ input.name \in {"==", "="}
   /\ ~HasShadowingDecl(input.type, input.name))
  => /\ last.outcome = "returned"
     /\ ~last.result.isNull
     /\ last.result.name = input.name
     /\ last.result.isMethod
     /\ last.result.kind = "OPERATOR"
     /\ IF input.name = "=="
          THEN OperatorFormalsAre(last.result, GenericStripped(input.type),
                                  "REF", "REF", "CONST_REF")
          ELSE OperatorFormalsAre(last.result, GenericStripped(input.type),
                                  "CONST_REF", "CONST_REF", "CONST_REF")

\* "==" requested on an instantiation of a generic record whose scope holds
\* a declaration of "==" that does not shadow.
C11_Witness ==
  /\ QueryApplied
  /\ last.outcome = "returned"
  /\ isRecordType(input.type)
  /\ input.type.inst = "instantiated"
  /\ input.name = "=="
  /\ Len(input.type.decls) = 1
  /\ ~HasShadowingDecl(input.type, "==")
  /\ last.result.formalTypes[1] = QT("REF", GenericStripped(input.type))
  /\ last.result.formalTypes[3].kind = "CONST_REF"

\* C13: every non-null signature the dispatcher query yields for
\* (type, name, parenless) carries the requested name, is flagged as a
\* compiler-generated method, and has as its first formal the receiver,
\* named "this".
C13_GeneratedMethodIdentity ==
  (QueryApplied /\ last.outcome = "returned" /\ ~last.result.isNull)
  => /\ last.result.name = input.name
     /\ last.result.isCompilerGenerated
     /\ last.result.isMethod
     /\ Len(last.result.formals) >= 1
     /\ Len(last.result.formalTypes) = Len(last.result.formals)
     /\ last.result.formals[1].name = "this"

\* A build without assertions, where no name check guards the result: rank
\* requested parenless on a domain.
C13_Witness ==
  /\ QueryApplied
  /\ ~asserts
  /\ last.outcome = "returned"
  /\ isDomainType(input.type)
  /\ input.name = "rank"
  /\ input.parenless
  /\ ~last.result.isNull
  /\ last.result.name = "rank"
  /\ last.result.formals = <<FormalDetail("this", FALSE)>>

InitGenerators ==
  {"generateInitSignature", "generateInitCopySignature", "generateDeinitSignature"}

\* C19: whenever needCompilerGeneratedMethod answers true, the dispatch
\* reaches the init, init= and deinit generators only with a non-null
\* record, union or class composite type: a true decision for one of these
\* names on a tuple, domain, array, raw pointer or enum hands no generator
\* a null or unsupported composite type.
C19_InitGeneratorsGetSupportedType ==
  (/\ QueryApplied
   /\ needCompilerGeneratedMethod(input.type, input.name, input.parenless))
  => LET g == SelectedGenerator(input.type, input.name) IN
     g.gen \in InitGenerators
       => /\ g.compType # NullType
          /\ g.compType.kind \in {"record", "union", "class"}

(***************************************************************************)
(* Properties of the generated enum casts.                                 *)
(***************************************************************************)
CastShape(s, fromQt, toQt) ==
  /\ ~s.isNull
  /\ s.name = ":"
  /\ ~s.isMethod
  /\ s.kind = "OPERATOR"
  /\ Len(s.formals) = 2 /\ Len(s.formalTypes) = 2
  /\ s.formals[1].name = "from"
  /\ s.formals[2].name = "to"
  /\ s.formalTypes = <<fromQt, toQt>>
  /\ s.needsInstantiation = TRUE

\* C12: getCompilerGeneratedBinaryOp(lhs, rhs, ":") with an enum lhs is the
\* from-enum cast, with an enum rhs and a non-enum lhs the to-enum cast; it
\* returns null when the enum of the cast is abstract, and for a concrete
\* enum a non-method operator named ":" with exactly the formals from, to
\* and needsInstantiation true: from the enum with default intent and to a
\* TYPE formal of the any-integral type for the from-enum cast, from
\* any-integral with default intent and to the enum as a TYPE formal for
\* the to-enum cast.  For any other name, or when neither operand is an
\* enum, it returns null.
C12_EnumCastShape ==
  last.op = "binary"
  => /\ last.outcome = "returned"
     /\ LET l == last.lhs.type
            r == last.rhs.type
        IN IF last.name = ":" /\ l.kind = "enum"
             THEN IF l.abstract THEN last.result = NullSig
                  ELSE CastShape(last.result, QT("DEFAULT_INTENT", l),
                                 QT("TYPE", AnyIntegralType))
           ELSE IF last.name = ":" /\ r.kind = "enum"
             THEN IF r.abstract THEN last.result = NullSig
                  ELSE CastShape(last.result, QT("DEFAULT_INTENT", AnyIntegralType),
                                 QT("TYPE", r))
           ELSE last.result = NullSig

\* A to-enum cast: the lhs is a record, the rhs a concrete enum.
C12_Witness ==
  /\ last.op = "binary"
  /\ last.name = ":"
  /\ last.lhs.type.kind = "record"
  /\ last.rhs.type = EnumConcrete
  /\ last.computed
  /\ ~last.result.isNull
  /\ last.result.formalTypes[1].type = AnyIntegralType
  /\ last.result.formalTypes[2] = QT("TYPE", EnumConcrete)

(***************************************************************************)
(* Properties of the receiver formal.                                      *)
(***************************************************************************)
\* C17: the receiver of a generated init is built over the generic type an
\* instantiation came from, the receiver of a generated init= or deinit
\* over the requested type unchanged; in all three the receiver is named
\* this, has kind REF and the composite type itself for a record or union,
\* and kind CONST_IN and the non-nilable borrowed class type for a class.
C17_ReceiverTypeAndIntent ==
  (last.op \in {"init", "init=", "deinit"} /\ last.outcome = "returned")
  => LET base == IF last.op = "init" THEN GenericStripped(input.type)
                 ELSE input.type
         recv == last.result.formalTypes[1]
     IN /\ last.result.formals[1].name = "this"
        /\ input.type.kind \in {"record", "union"} => recv = QT("REF", base)
        /\ input.type.kind = "class"
             => recv = QT("CONST_IN", [base EXCEPT !.decor = "BORROWED_NONNIL"])

\* init generated for an instantiation of a generic class: the receiver is
\* the borrowed non-nilable generic class.
C17_Witness ==
  /\ last.op = "init" /\ last.outcome = "returned"
  /\ input.type.kind = "class"
  /\ input.type.inst = "instantiated"
  /\ last.result.formalTypes[1].kind = "CONST_IN"
  /\ last.result.formalTypes[1].type.inst = "generic"
  /\ last.result.formalTypes[1].type.decor = "BORROWED_NONNIL"

(***************************************************************************)
(* Properties of needsInstantiation.                                       *)
(***************************************************************************)
\* C20: in every generated record "=" or "==" signature needsInstantiation
\* is true whenever the type of its formals, the generic-stripped record
\* type, is generic or generic with defaults; a request on an instantiation
\* of a generic record does not yield formals of the generic record type
\* with needsInstantiation false.
C20_GenericFormalsNeedInstantiation ==
  (/\ QueryApplied
   /\ last.outcome = "returned"
   /\ ~last.result.isNull
   /\ isRecordType(input.type)
   /\ input.name \in {"==", "="})
  => (getTypeGenericity(last.result.formalTypes[1].type)
        \in {"GENERIC", "GENERIC_WITH_DEFAULTS"}
      => last.result.needsInstantiation)

====
